---- MODULE Spec2Model ----
(***************************************************************************)
(* Model of export.py: a batch driver that runs an external chat exporter  *)
(* once per configured channel section and records a per-channel `after`   *)
(* watermark in a configparser store that is rewritten to disk per job.    *)
(*                                                                         *)
(* Text is modelled as a sequence of one-character strings, so that        *)
(* str.partition, int(), str(), `in`, lower() and the ISO conversions are  *)
(* computed rather than assumed.  An optional value is <<>> (None) or      *)
(* <<x>>.                                                                  *)
(***************************************************************************)
EXTENDS Integers, Sequences, FiniteSets, TLC

\* ------------------------------------------------------------------ bounds
MaxChannels == 2
MaxClock == 2
MaxBatches == 2

\* -------------------------------------------------------------- text tools
None == <<>>

Some(x) == <<x>>

DigitChars == <<"0", "1", "2", "3", "4", "5", "6", "7", "8", "9">>

IsDigit(c) == \E d \in 1..10 : DigitChars[d] = c

DigitVal(c) == (CHOOSE d \in 1..10 : DigitChars[d] = c) - 1

IsSpace(c) == c \in {" ", "\t", "\n"}

\* `needle in hay` on str
Contains(hay, needle) ==
    \E i \in 0..(Len(hay) - Len(needle)) :
        SubSeq(hay, i + 1, i + Len(needle)) = needle

LowerChar(c) ==
    CASE c = "A" -> "a" [] c = "B" -> "b" [] c = "C" -> "c" [] c = "D" -> "d"
      [] c = "E" -> "e" [] c = "F" -> "f" [] c = "G" -> "g" [] c = "H" -> "h"
      [] c = "I" -> "i" [] c = "J" -> "j" [] c = "K" -> "k" [] c = "L" -> "l"
      [] c = "M" -> "m" [] c = "N" -> "n" [] c = "O" -> "o" [] c = "P" -> "p"
      [] c = "Q" -> "q" [] c = "R" -> "r" [] c = "S" -> "s" [] c = "T" -> "t"
      [] c = "U" -> "u" [] c = "V" -> "v" [] c = "W" -> "w" [] c = "X" -> "x"
      [] c = "Y" -> "y" [] c = "Z" -> "z" [] OTHER -> c

\* str.lower()
Lower(s) == [i \in 1..Len(s) |-> LowerChar(s[i])]

\* str.partition(sep) for a one-character separator: <<head, sep, tail>>
Partition(s, sep) ==
    IF \E i \in 1..Len(s) : s[i] = sep
    THEN LET p == CHOOSE i \in 1..Len(s) :
                      s[i] = sep /\ \A j \in 1..(i - 1) : s[j] # sep
         IN  <<SubSeq(s, 1, p - 1), <<sep>>, SubSeq(s, p + 1, Len(s))>>
    ELSE <<s, <<>>, <<>>>>

\* str.strip()
Strip(s) ==
    IF \A i \in 1..Len(s) : IsSpace(s[i])
    THEN <<>>
    ELSE LET a == CHOOSE i \in 1..Len(s) :
                      ~IsSpace(s[i]) /\ \A j \in 1..(i - 1) : IsSpace(s[j])
             b == CHOOSE i \in 1..Len(s) :
                      ~IsSpace(s[i]) /\ \A j \in (i + 1)..Len(s) : IsSpace(s[j])
         IN  SubSeq(s, a, b)

RECURSIVE DigitsVal(_)
DigitsVal(s) ==
    IF s = <<>> THEN 0
    ELSE 10 * DigitsVal(SubSeq(s, 1, Len(s) - 1)) + DigitVal(s[Len(s)])

AllDigits(s) == Len(s) > 0 /\ \A i \in 1..Len(s) : IsDigit(s[i])

\* int(text): surrounding whitespace and one sign are accepted, then
\* decimal digits; anything else is a ValueError (ok = FALSE).
IntParse(s) ==
    LET t == Strip(s)
        signed == Len(t) > 0 /\ t[1] \in {"+", "-"}
        body == IF signed THEN Tail(t) ELSE t
    IN  IF AllDigits(body)
        THEN [ok |-> TRUE,
              val |-> IF signed /\ t[1] = "-" THEN 0 - DigitsVal(body)
                                              ELSE DigitsVal(body)]
        ELSE [ok |-> FALSE, val |-> 0]

RECURSIVE NatStr(_)
NatStr(n) ==
    IF n < 10 THEN <<DigitChars[n + 1]>>
    ELSE NatStr(n \div 10) \o <<DigitChars[(n % 10) + 1]>>

\* str(int)
IntStr(n) == IF n < 0 THEN <<"-">> \o NatStr(0 - n) ELSE NatStr(n)

\* datetime.isoformat(): the clock value n is rendered as "T" and its digits
IsoFormat(n) == <<"T">> \o NatStr(n)

\* datetime.fromisoformat(text); ok = FALSE is a ValueError
FromIso(s) ==
    IF Len(s) > 1 /\ s[1] = "T" /\ AllDigits(Tail(s))
    THEN [ok |-> TRUE, val |-> DigitsVal(Tail(s))]
    ELSE [ok |-> FALSE, val |-> 0]

\* "sep".join(parts)
RECURSIVE Join(_, _)
Join(sep, parts) ==
    IF parts = <<>> THEN <<>>
    ELSE IF Len(parts) = 1 THEN parts[1]
    ELSE parts[1] \o sep \o Join(sep, Tail(parts))

\* ------------------------------------------------- configparser store
\* A store is the ordered sequence of its sections; a section is
\* [name |-> Text, opts |-> sequence of [k |-> option key, v |-> Text]].
HasSection(cfg, name) == \E i \in 1..Len(cfg) : cfg[i].name = name

SectionIndex(cfg, name) == CHOOSE i \in 1..Len(cfg) : cfg[i].name = name

SectionOpts(cfg, name) == cfg[SectionIndex(cfg, name)].opts

\* ConfigParser.options(section): the option keys in file order
Options(cfg, name) ==
    LET o == SectionOpts(cfg, name) IN [i \in 1..Len(o) |-> o[i].k]

HasOption(cfg, name, key) ==
    /\ HasSection(cfg, name)
    /\ \E i \in 1..Len(SectionOpts(cfg, name)) : SectionOpts(cfg, name)[i].k = key

\* ConfigParser.get(section, key): err is "" when the value is found
Get(cfg, name, key) ==
    IF ~HasSection(cfg, name) THEN [err |-> "NoSectionError", v |-> <<>>]
    ELSE IF ~HasOption(cfg, name, key) THEN [err |-> "NoOptionError", v |-> <<>>]
    ELSE LET o == SectionOpts(cfg, name)
             i == CHOOSE j \in 1..Len(o) : o[j].k = key
         IN  [err |-> "", v |-> o[i].v]

\* mutant: set replaces the section's options by the one being set
SetOpt_DropsOthers(cfg, name, key, val) ==
    IF ~HasSection(cfg, name) THEN [err |-> "NoSectionError", cfg |-> cfg]
    ELSE [err |-> "",
          cfg |-> [cfg EXCEPT ![SectionIndex(cfg, name)] =
                      [name |-> name, opts |-> <<[k |-> key, v |-> val]>>]]]

\* ConfigParser.set(section, key, value): replaces the option in place or
\* appends it; a missing section is NoSectionError and the store is unchanged
SetOpt(cfg, name, key, val) ==
    IF ~HasSection(cfg, name) THEN [err |-> "NoSectionError", cfg |-> cfg]
    ELSE LET si == SectionIndex(cfg, name)
             o == cfg[si].opts
             o2 == IF \E j \in 1..Len(o) : o[j].k = key
                   THEN [j \in 1..Len(o) |->
                            IF o[j].k = key THEN [k |-> key, v |-> val] ELSE o[j]]
                   ELSE Append(o, [k |-> key, v |-> val])
         IN  [err |-> "",
              cfg |-> [cfg EXCEPT ![si] = [name |-> cfg[si].name, opts |-> o2]]]

\* ConfigParser.write(f): a "[name]" line, then one "k = v" line per option
RECURSIVE WriteLines(_)
WriteLines(cfg) ==
    IF cfg = <<>> THEN <<>>
    ELSE <<[kind |-> "section", k |-> "", v |-> cfg[1].name]>>
         \o [i \in 1..Len(cfg[1].opts) |->
                [kind |-> "option", k |-> cfg[1].opts[i].k, v |-> cfg[1].opts[i].v]]
         \o WriteLines(Tail(cfg))

\* ConfigParser.read(filename): each "[name]" line opens a section, and the
\* option lines up to the next one are its options
ReadLines(lines) ==
    LET hs == {i \in 1..Len(lines) : lines[i].kind = "section"}
        nth(n) == CHOOSE i \in hs : Cardinality({j \in hs : j <= i}) = n
        last(i) == IF \E j \in hs : j > i
                   THEN (CHOOSE j \in hs : j > i /\ \A m \in hs : m > i => j <= m) - 1
                   ELSE Len(lines)
    IN  [n \in 1..Cardinality(hs) |->
            [name |-> lines[nth(n)].v,
             opts |-> [m \in 1..(last(nth(n)) - nth(n)) |->
                          [k |-> lines[nth(n) + m].k, v |-> lines[nth(n) + m].v]]]]

\* ------------------------------------------------------------ literals
TxtMain == <<"m", "a", "i", "n">>

TxtJson == <<"j", "s", "o", "n">>

TxtCsv == <<"c", "s", "v">>

TxtHtml == <<"h", "t", "m", "l">>

TxtText == <<"t", "e", "x", "t">>

TxtTxt == <<"t", "x", "t">>

TxtU == <<"u">>

TxtExport == <<"e", "x", "p", "o", "r", "t">>

\* DEFAULT_EXECUTABLE and DEFAULT_OUT_DIR, abbreviated
Executable == <<"e", "x", "e">>

OutDir == <<"o", "u", "t">>

\* the diagnostic run_export recognises as "nothing new"
NoMessagesText ==
    <<"c", "o", "n", "t", "a", "i", "n", "s", " ", "n", "o", " ", "m", "e",
      "s", "s", "a", "g", "e", "s", " ", "f", "o", "r", " ", "t", "h", "e",
      " ", "s", "p", "e", "c", "i", "f", "i", "e", "d", " ", "p", "e", "r",
      "i", "o", "d">>

\* ------------------------------------------------------------------ Token
\* ConfigParser.getboolean's BOOLEAN_STATES, applied to value.lower()
BooleanStates(v) ==
    LET l == Lower(v)
    IN  IF l \in {<<"1">>, <<"y", "e", "s">>, <<"t", "r", "u", "e">>, <<"o", "n">>}
        THEN [ok |-> TRUE, val |-> TRUE]
        ELSE IF l \in {<<"0">>, <<"n", "o">>, <<"f", "a", "l", "s", "e">>,
                       <<"o", "f", "f">>}
        THEN [ok |-> TRUE, val |-> FALSE]
        ELSE [ok |-> FALSE, val |-> FALSE]

\* mutant: a missing secret falls back to the empty string
TokenFromConfig_Fallback(tokens_config, token_name) ==
    LET t == Get(tokens_config, token_name, "token")
        b == Get(tokens_config, token_name, "bot")
    IN  [err |-> "",
         token |-> t.v,
         bot |-> IF b.err # "" THEN TRUE ELSE BooleanStates(b.v).val]

\* Token.from_config: err is "" and token/bot are set, or err names the
\* exception raised
TokenFromConfig(tokens_config, token_name) ==
    LET t == Get(tokens_config, token_name, "token")
        b == Get(tokens_config, token_name, "bot")
        is_bot == IF b.err # "" THEN [ok |-> TRUE, val |-> TRUE]
                  ELSE BooleanStates(b.v)
    IN  IF t.err # "" THEN [err |-> t.err, token |-> <<>>, bot |-> FALSE]
        ELSE IF ~is_bot.ok THEN [err |-> "ValueError", token |-> <<>>, bot |-> FALSE]
        ELSE [err |-> "", token |-> t.v, bot |-> is_bot.val]

\* Token.args
TokenArgs(token) ==
    <<<<"-", "t">>, token.token>> \o (IF token.bot THEN <<<<"-", "b">>>> ELSE <<>>)

\* ----------------------------------------------------------------- Export
\* Export._fields
ExportFields ==
    {"guild", "channel", "token_name", "output_format", "datetime_format",
     "after", "partition"}

\* key_aliases / alias(key)
Alias(key) ==
    CASE key = "token" -> "token_name"
      [] key = "format" -> "output_format"
      [] OTHER -> key

\* value(key, section) returns something other than None
ValueKept(key) ==
    key = "partition" \/ key = "after" \/ Alias(key) \in ExportFields

\* mutant: an unparseable value is let through
ValueRaises_Never(key, v) == key = "partition" /\ key = "after" /\ Len(v) < 0

\* value(key, section) raises ValueError
ValueRaises(key, v) ==
    \/ key = "partition" /\ ~IntParse(v).ok
    \/ key = "after" /\ ~FromIso(v).ok

\* value(key, section) when it neither raises nor returns None
Value(key, v) ==
    IF key = "partition" THEN IntParse(v).val
    ELSE IF key = "after" THEN FromIso(v).val
    ELSE v

\* the one element of a singleton set; {e(x) : x \in {v}} names a value once
Only(S) == CHOOSE x \in S : TRUE

OptsRaise(o) == \E i \in 1..Len(o) : ValueRaises(o[i].k, o[i].v)

SectionDataRaises(cfg, section) ==
    Only({OptsRaise(o) : o \in {SectionOpts(cfg, section)}})

\* the dict comprehension over the options o of a section; a later option
\* with the same alias replaces an earlier one
OptsData(o) ==
    LET kept == {i \in 1..Len(o) : ValueKept(o[i].k)}
        last(f) == CHOOSE i \in kept :
                       /\ Alias(o[i].k) = f
                       /\ \A j \in kept : Alias(o[j].k) = f => j <= i
    IN  [f \in {Alias(o[i].k) : i \in kept} |-> Value(o[last(f)].k, o[last(f)].v)]

\* section_data(section)
SectionData(cfg, section) == Only({OptsData(o) : o \in {SectionOpts(cfg, section)}})

\* mutant: the community's values win over the channel's
DictMerge_FirstWins(a, b) ==
    [f \in (DOMAIN a) \cup (DOMAIN b) |-> IF f \in DOMAIN a THEN a[f] ELSE b[f]]

\* {**a, **b}
DictMerge(a, b) ==
    [f \in (DOMAIN a) \cup (DOMAIN b) |-> IF f \in DOMAIN b THEN b[f] ELSE a[f]]

NoExport ==
    [guild |-> [id |-> 0, name |-> <<>>], channel |-> [id |-> 0, name |-> <<>>],
     token_name |-> <<>>, output_format |-> <<>>, datetime_format |-> <<>>,
     after |-> None, partition |-> None]

\* cls(guild=..., channel=..., **m), with the NamedTuple's defaults
MakeExport(guild, channel, m) ==
    [guild |-> guild,
     channel |-> channel,
     token_name |-> IF "token_name" \in DOMAIN m THEN m["token_name"] ELSE TxtMain,
     output_format |-> IF "output_format" \in DOMAIN m THEN m["output_format"]
                       ELSE TxtJson,
     datetime_format |-> IF "datetime_format" \in DOMAIN m THEN m["datetime_format"]
                         ELSE TxtU,
     after |-> IF "after" \in DOMAIN m THEN Some(m["after"]) ELSE None,
     partition |-> IF "partition" \in DOMAIN m THEN Some(m["partition"]) ELSE None]

\* Export.from_config after channel_section.partition("."): err is "" and
\* export is the descriptor, or err names the exception raised
FromParts(cfg, channel_section, guild_id, channel_id) ==
    LET guild_name == Get(cfg, guild_id, "name")
        channel_name == Get(cfg, channel_section, "name")
        gid == IntParse(guild_id)
        cid == IntParse(channel_id)
        fail(e) == [err |-> e, export |-> NoExport]
    IN  IF guild_name.err # "" THEN fail(guild_name.err)
        ELSE IF channel_name.err # "" THEN fail(channel_name.err)
        ELSE IF ~gid.ok \/ ~cid.ok THEN fail("ValueError")
        ELSE IF SectionDataRaises(cfg, guild_id) \/ SectionDataRaises(cfg, channel_section)
        THEN fail("ValueError")
        ELSE Only({IF "guild" \in DOMAIN m \/ "channel" \in DOMAIN m
                   THEN fail("TypeError")
                   ELSE [err |-> "",
                         export |-> MakeExport([id |-> gid.val, name |-> guild_name.v],
                                               [id |-> cid.val, name |-> channel_name.v],
                                               m)] :
                      m \in {DictMerge(a, b) : a \in {SectionData(cfg, guild_id)},
                                              b \in {SectionData(cfg, channel_section)}}})

\* Export.from_config
FromConfig(cfg, channel_section) ==
    Only({FromParts(cfg, channel_section, parts[1], parts[3]) :
             parts \in {Partition(channel_section, ".")}})

\* mutant: the families are looked for in the format as written
Filename_NoLower(export, now) ==
    LET time == IF export.after # None THEN export.after[1] ELSE now
        name == Join(<<"-">>, <<export.guild.name, export.channel.name,
                                IntStr(export.channel.id), IntStr(time)>>)
        output_format == export.output_format
        ext == IF Contains(output_format, TxtJson) THEN TxtJson
               ELSE IF Contains(output_format, TxtCsv) THEN TxtCsv
               ELSE IF Contains(output_format, TxtHtml) THEN TxtHtml
               ELSE IF Contains(output_format, TxtText) THEN TxtTxt
               ELSE output_format
    IN  name \o <<".">> \o ext

\* Export.filename, with utcnow() = now
Filename(export, now) ==
    LET time == IF export.after # None THEN export.after[1] ELSE now
        timestamp == IntStr(time)
        name == Join(<<"-">>, <<export.guild.name, export.channel.name,
                                IntStr(export.channel.id), timestamp>>)
        output_format == Lower(export.output_format)
        ext == IF Contains(output_format, TxtJson) THEN TxtJson
               ELSE IF Contains(output_format, TxtCsv) THEN TxtCsv
               ELSE IF Contains(output_format, TxtHtml) THEN TxtHtml
               ELSE IF Contains(output_format, TxtText) THEN TxtTxt
               ELSE output_format
    IN  name \o <<".">> \o ext

\* Export.args
ExportArgs(export, out_dir, now) ==
    <<<<"-", "c">>, IntStr(export.channel.id),
      <<"-", "o">>, out_dir \o <<"/">> \o Filename(export, now),
      <<"-", "f">>, export.output_format,
      <<"-", "-", "d", "a", "t", "e", "f", "o", "r", "m", "a", "t">>,
      export.datetime_format>>
    \o (IF export.after # None
        THEN <<<<"-", "-", "a", "f", "t", "e", "r">>, IsoFormat(export.after[1])>>
        ELSE <<>>)
    \o (IF export.partition # None /\ export.partition[1] # 0
        THEN <<<<"-", "p">>, IntStr(export.partition[1])>>
        ELSE <<>>)

\* the argument list run_export hands to subprocess.check_output
CommandLine(export, token, now) ==
    <<Executable, TxtExport>> \o ExportArgs(export, OutDir, now) \o TokenArgs(token)

\* the key run_export writes the watermark to
WatermarkKey(export) ==
    IntStr(export.guild.id) \o <<".">> \o IntStr(export.channel.id)

\* mutant: every section is taken for a channel section
IsChannelSection_Any(sec) == Len(sec.name) >= 0

\* run_all's first loop: the sections whose key contains "."
IsChannelSection(sec) == Contains(sec.name, <<".">>)

ChannelSections(cfg) ==
    LET cs == SelectSeq(cfg, IsChannelSection)
    IN  [i \in 1..Len(cs) |-> cs[i].name]

\* ------------------------------------------------------------------ state
VARIABLES
    config,            \* the in-memory ConfigParser (run_all's config)
    tokens,            \* the token ConfigParser
    disk,              \* the lines of the file named by config_filename
    persist,           \* config_filename is not None
    now,               \* the wall clock read by datetime.utcnow()
    pc,                \* "idle", "loop", "exec", "write", "done", "raised", "crashed"
    channel_sections,  \* run_all's list of channel section keys
    idx,               \* position of run_all's second loop in channel_sections
    export,            \* channel_export of the current iteration
    running,           \* exporter child processes in flight
    result,            \* "" while running, "0" returned, or the exception raised
    batch,             \* how many times run_all has been started
    jobs,              \* log of this batch's exporter invocations
    config0,           \* the store when the batch started
    job0,              \* the store and the file when the current job started
    failed             \* the latest hard failure: <<>> or <<[section, after, batch]>>

vars ==
    <<config, tokens, disk, persist, now, pc, channel_sections, idx, export,
      running, result, batch, jobs, config0, job0, failed>>

\* ------------------------------------------------------- initial stores
Opt(k, v) == [k |-> k, v |-> v]

Section(name, opts) == [name |-> name, opts |-> opts]

TxtAlt == <<"a", "l", "t">>

TxtG == <<"g">>

TxtC == <<"c">>

ChannelKey(g, c) == IntStr(g) \o <<".">> \o IntStr(c)

\* option lists a channel section may start with: plain, with a watermark,
\* with overrides, without a name, with an unparseable watermark
ChannelOpts(v) ==
    CASE v = 1 -> <<Opt("name", TxtC)>>
      [] v = 2 -> <<Opt("after", IsoFormat(0)), Opt("name", TxtC)>>
      [] v = 3 -> <<Opt("name", TxtC), Opt("format", TxtHtml), Opt("token", TxtAlt)>>
      [] v = 4 -> <<Opt("after", IsoFormat(0))>>
      [] OTHER -> <<Opt("name", TxtC), Opt("after", <<"x">>)>>

GuildOpts(g) ==
    CASE g = 1 -> <<Opt("name", TxtG)>>
      [] OTHER -> <<Opt("name", TxtG), Opt("format", TxtCsv),
                    Opt("after", IsoFormat(1)), Opt("partition", <<"5">>)>>

\* channel k belongs to community 1 (k odd) or 2 (k even) and has id k + 1
ChannelSection(k, v) == Section(ChannelKey(2 - (k % 2), k + 1), ChannelOpts(v))

Reverse(s) == [i \in 1..Len(s) |-> s[Len(s) + 1 - i]]

\* two file layouts: communities interleaved with their channels, or all
\* communities first (the first one carrying inheritable defaults) and the
\* channels in descending id order
Layout(interleaved, chs) ==
    LET g2 == Section(IntStr(2), GuildOpts(1))
    IN  IF interleaved
        THEN <<Section(IntStr(1), GuildOpts(1)), chs[1], g2>> \o Tail(chs)
        ELSE <<g2, Section(IntStr(1), GuildOpts(2))>> \o Reverse(chs)

\* what may be wrong with a community section: it is absent, has no name,
\* or carries a watermark or a partition size that does not parse
BrokenGuild(g, w) ==
    CASE w = 1 -> <<>>
      [] w = 2 -> <<Section(IntStr(g), <<Opt("format", TxtCsv)>>)>>
      [] w = 3 -> <<Section(IntStr(g), <<Opt("name", TxtG), Opt("after", <<"x">>)>>)>>
      [] OTHER -> <<Section(IntStr(g), <<Opt("name", TxtG), Opt("partition", <<"x">>)>>)>>

\* stores whose community 2 is broken, its channel second or first in the file
BrokenConfigs ==
    {<<Section(IntStr(1), GuildOpts(1))>> \o BrokenGuild(2, w)
        \o (IF first THEN <<ChannelSection(2, 1), ChannelSection(1, 1)>>
                      ELSE <<ChannelSection(1, 1), ChannelSection(2, 1)>>) :
        w \in 1..4, first \in BOOLEAN}

\* channel s, if there is one, takes variation v; the others are plain
InitialConfigs ==
    {Layout(l, [k \in 1..n |-> ChannelSection(k, IF k = s THEN v ELSE 1)]) :
        l \in BOOLEAN, n \in 1..MaxChannels, s \in 1..MaxChannels, v \in 1..5}
    \cup BrokenConfigs

TokenStores ==
    {<<Section(TxtMain, <<Opt("token", <<"s", "1">>)>>),
       Section(TxtAlt, <<Opt("token", <<"s", "2">>), Opt("bot", <<"n", "o">>)>>)>>,
     <<Section(TxtMain, <<Opt("bot", <<"y", "e", "s">>)>>),
       Section(TxtAlt, <<Opt("token", <<"s", "2">>)>>)>>,
     <<Section(TxtAlt, <<Opt("token", <<"s", "2">>)>>)>>}

\* what the exporter may print on stderr when it exits non-zero
Stderrs ==
    {<<"C", "h", "a", "n", "n", "e", "l", " ">> \o NoMessagesText \o <<".">>,
     SubSeq(NoMessagesText, 1, 20),
     <<"U", "n", "a", "u", "t", "h", "o", "r", "i", "z", "e", "d">>}

Init ==
    /\ config \in InitialConfigs
    /\ tokens \in TokenStores
    /\ disk = WriteLines(config)
    /\ persist \in BOOLEAN
    /\ now = 1
    /\ pc = "idle"
    /\ channel_sections = <<>>
    /\ idx = 0
    /\ export = NoExport
    /\ running = 0
    /\ result = ""
    /\ batch = 0
    /\ jobs = <<>>
    /\ config0 = config
    /\ job0 = [config |-> config, disk |-> disk]
    /\ failed = <<>>

\* ---------------------------------------------------------------- actions
\* main and run_all up to the second loop: load the store when it lives in a
\* file, then collect the channel sections
EnterRunAll ==
    /\ \E loaded \in {IF persist THEN ReadLines(disk) ELSE config} :
           /\ config' = loaded
           /\ config0' = loaded
           /\ channel_sections' = ChannelSections(loaded)
           /\ job0' = [config |-> loaded, disk |-> disk]
    /\ idx' = 1
    /\ pc' = "loop"
    /\ batch' = batch + 1
    /\ result' = ""
    /\ jobs' = <<>>
    /\ running' = 0
    /\ export' = NoExport
    /\ UNCHANGED <<tokens, disk, persist, now, failed>>

\* the first batch
Main ==
    /\ pc = "idle"
    /\ EnterRunAll

\* a later batch invocation, after the previous one returned or raised
Rerun ==
    /\ pc \in {"done", "raised"}
    /\ batch < MaxBatches
    /\ EnterRunAll

\* mutant: the loop stops one section early
RunAllReturn_Early ==
    /\ pc = "loop"
    /\ idx >= Len(channel_sections)
    /\ pc' = "done"
    /\ result' = "0"
    /\ UNCHANGED <<config, tokens, disk, persist, now, channel_sections, idx,
                   export, running, batch, jobs, config0, job0, failed>>

\* run_all: the loop is exhausted, return 0
RunAllReturn ==
    /\ pc = "loop"
    /\ idx > Len(channel_sections)
    /\ pc' = "done"
    /\ result' = "0"
    /\ UNCHANGED <<config, tokens, disk, persist, now, channel_sections, idx,
                   export, running, batch, jobs, config0, job0, failed>>

NewJob(section, e, args) ==
    [section |-> section, after |-> e.after, args |-> args, exit |-> "running",
     stderr |-> <<>>, start_time |-> now, read_time |-> None, exit_time |-> None,
     ret |-> None]

\* one loop iteration up to the blocking check_output call: build the
\* descriptor, resolve the token, assemble the command line, start the child
StartJob ==
    /\ pc = "loop"
    /\ idx <= Len(channel_sections)
    /\ \E built \in {FromConfig(config, channel_sections[idx])} :
       \E token \in {TokenFromConfig(tokens, built.export.token_name)} :
           IF built.err # ""
           THEN /\ pc' = "raised"
                /\ result' = built.err
                /\ UNCHANGED <<export, running, jobs, job0>>
           ELSE IF token.err # ""
           THEN /\ pc' = "raised"
                /\ result' = token.err
                /\ export' = built.export
                /\ UNCHANGED <<running, jobs, job0>>
           ELSE /\ pc' = "exec"
                /\ export' = built.export
                /\ running' = running + 1
                /\ jobs' = Append(jobs, NewJob(channel_sections[idx], built.export,
                                               CommandLine(built.export, token, now)))
                /\ job0' = [config |-> config, disk |-> disk]
                /\ UNCHANGED result
    /\ UNCHANGED <<config, tokens, disk, persist, now, channel_sections, idx,
                   batch, config0, failed>>

Finish(job, exit, stderr, ret) ==
    [job EXCEPT !.exit = exit, !.stderr = stderr, !.exit_time = Some(now),
                !.ret = ret]

\* run_export after the try statement: set the watermark on the section named
\* by the descriptor's ids, then open the file for writing when one is named
AdvanceWatermark(exit, stderr) ==
    \E r \in {SetOpt(config, WatermarkKey(export), "after", IsoFormat(now))} :
    \E k \in {Len(jobs)} :
        IF r.err # ""
        THEN /\ pc' = "raised"
             /\ result' = r.err
             /\ jobs' = [jobs EXCEPT ![k] = Finish(jobs[k], exit, stderr, None)]
             /\ UNCHANGED <<config, disk, idx>>
        ELSE /\ config' = r.cfg
             /\ UNCHANGED result
             /\ IF persist
                THEN /\ pc' = "write"
                     /\ disk' = <<>>
                     /\ jobs' = [jobs EXCEPT ![k] = Finish(jobs[k], exit, stderr, None)]
                     /\ UNCHANGED idx
                ELSE /\ pc' = "loop"
                     /\ idx' = idx + 1
                     /\ jobs' = [jobs EXCEPT ![k] = Finish(jobs[k], exit, stderr, Some(0))]
                     /\ UNCHANGED disk

\* mutants of the stderr test: every diagnostic is benign / none is
IsNoMessages_Always(stderr) == Len(stderr) >= 0

IsNoMessages_Never(stderr) == Len(stderr) < 0

\* the test run_export applies to the captured stderr
IsNoMessages(stderr) == Contains(stderr, NoMessagesText)

\* check_output returns: the exporter exited with status 0
ExporterExitsZero ==
    /\ pc = "exec"
    /\ running' = running - 1
    /\ AdvanceWatermark("zero", <<>>)
    /\ UNCHANGED <<tokens, persist, now, channel_sections, export, batch,
                   config0, job0, failed>>

\* mutant: the skip returns before the watermark is set
ExporterNoMessages_Returns ==
    /\ pc = "exec"
    /\ \E stderr \in Stderrs :
          /\ IsNoMessages(stderr)
          /\ jobs' = [jobs EXCEPT ![Len(jobs)] =
                         Finish(jobs[Len(jobs)], "nonzero", stderr, Some(0))]
    /\ pc' = "loop"
    /\ idx' = idx + 1
    /\ running' = running - 1
    /\ UNCHANGED <<config, tokens, disk, persist, now, channel_sections,
                   export, result, batch, config0, job0, failed>>

\* CalledProcessError with the benign diagnostic: skip, then advance
ExporterNoMessages ==
    /\ pc = "exec"
    /\ \E stderr \in Stderrs :
          /\ IsNoMessages(stderr)
          /\ AdvanceWatermark("nonzero", stderr)
    /\ running' = running - 1
    /\ UNCHANGED <<tokens, persist, now, channel_sections, export, batch,
                   config0, job0, failed>>

\* mutant: the hard failure is swallowed and the loop goes on
ExporterFails_Swallowed ==
    /\ pc = "exec"
    /\ \E stderr \in Stderrs :
          /\ ~IsNoMessages(stderr)
          /\ jobs' = [jobs EXCEPT ![Len(jobs)] =
                         Finish(jobs[Len(jobs)], "nonzero", stderr, Some(0))]
    /\ pc' = "loop"
    /\ idx' = idx + 1
    /\ running' = running - 1
    /\ failed' = Some([section |-> jobs[Len(jobs)].section,
                       after |-> jobs[Len(jobs)].after, batch |-> batch])
    /\ UNCHANGED <<config, tokens, disk, persist, now, channel_sections,
                   export, result, batch, config0, job0>>

\* mutant: the watermark is set before the hard failure is re-raised
ExporterFails_Advances ==
    /\ pc = "exec"
    /\ \E stderr \in Stderrs :
          /\ ~IsNoMessages(stderr)
          /\ jobs' = [jobs EXCEPT ![Len(jobs)] =
                         Finish(jobs[Len(jobs)], "nonzero", stderr, None)]
    /\ config' = SetOpt(config, WatermarkKey(export), "after", IsoFormat(now + 1)).cfg
    /\ disk' = IF persist THEN WriteLines(config') ELSE disk
    /\ pc' = "raised"
    /\ result' = "CalledProcessError"
    /\ running' = running - 1
    /\ failed' = Some([section |-> jobs[Len(jobs)].section,
                       after |-> jobs[Len(jobs)].after, batch |-> batch])
    /\ UNCHANGED <<tokens, persist, now, channel_sections, idx,
                   export, batch, config0, job0>>

\* CalledProcessError with any other diagnostic: re-raised out of run_all
ExporterFails ==
    /\ pc = "exec"
    /\ \E stderr \in Stderrs :
          /\ ~IsNoMessages(stderr)
          /\ jobs' = [jobs EXCEPT ![Len(jobs)] =
                         Finish(jobs[Len(jobs)], "nonzero", stderr, None)]
    /\ pc' = "raised"
    /\ result' = "CalledProcessError"
    /\ running' = running - 1
    /\ failed' = Some([section |-> jobs[Len(jobs)].section,
                       after |-> jobs[Len(jobs)].after, batch |-> batch])
    /\ UNCHANGED <<config, tokens, disk, persist, now, channel_sections, idx,
                   export, batch, config0, job0>>

\* mutant: the KeyboardInterrupt handler falls through to the watermark update
Interrupt_FallsThrough ==
    /\ pc = "exec"
    /\ running' = running - 1
    /\ AdvanceWatermark("interrupted", <<>>)
    /\ UNCHANGED <<tokens, persist, now, channel_sections, export, batch,
                   config0, job0, failed>>

\* KeyboardInterrupt inside check_output: run_export returns 0 and run_all,
\* which ignores the return value, moves to the next channel section
Interrupt ==
    /\ pc = "exec"
    /\ jobs' = [jobs EXCEPT ![Len(jobs)] =
                   Finish(jobs[Len(jobs)], "interrupted", <<>>, Some(0))]
    /\ running' = running - 1
    /\ pc' = "loop"
    /\ idx' = idx + 1
    /\ UNCHANGED <<config, tokens, disk, persist, now, channel_sections, export,
                   result, batch, config0, job0, failed>>

\* config.write(f) and the close of the file; run_export returns 0
WriteStore ==
    /\ pc = "write"
    /\ disk' = WriteLines(config)
    /\ jobs' = [jobs EXCEPT ![Len(jobs)].ret = Some(0)]
    /\ pc' = "loop"
    /\ idx' = idx + 1
    /\ UNCHANGED <<config, tokens, persist, now, channel_sections, export,
                   running, result, batch, config0, job0, failed>>

\* the process dies during a job; a file open for writing keeps whatever
\* was flushed
Crash ==
    /\ pc \in {"exec", "write"}
    /\ pc' = "crashed"
    /\ IF pc = "write"
       THEN \E lines \in {WriteLines(config)} :
            \E m \in 0..Len(lines) :
                disk' = SubSeq(lines, 1, m)
       ELSE UNCHANGED disk
    /\ UNCHANGED <<config, tokens, persist, now, channel_sections, idx, export,
                   running, result, batch, jobs, config0, job0, failed>>

\* time passes while run_export is blocked on the exporter
Tick ==
    /\ pc = "exec"
    /\ now < MaxClock
    /\ now' = now + 1
    /\ UNCHANGED <<config, tokens, disk, persist, pc, channel_sections, idx,
                   export, running, result, batch, jobs, config0, job0, failed>>

Next ==
    \/ Main
    \/ RunAllReturn
    \/ StartJob
    \/ ExporterExitsZero
    \/ ExporterNoMessages
    \/ ExporterFails
    \/ Interrupt
    \/ WriteStore
    \/ Crash
    \/ Tick

Spec == Init /\ [][Next]_vars

\* check_output returns or is interrupted
ExporterReturns ==
    ExporterExitsZero \/ ExporterNoMessages \/ ExporterFails \/ Interrupt

\* one thread runs the batch, so a step that can be taken is taken; that the
\* exporter comes back is the environment's part
SpecFair ==
    /\ Init
    /\ [][Next]_vars
    /\ WF_vars(Main)
    /\ WF_vars(StartJob)
    /\ WF_vars(RunAllReturn)
    /\ WF_vars(WriteStore)
    /\ WF_vars(ExporterReturns)

\* ------------------------------------------------------- repeated batches
\* stores in the communities-first layout whose channel sections are all
\* valid, one of them with a watermark of its own
RerunConfigs ==
    {Layout(l, [k \in 1..n |-> ChannelSection(k, IF k = s THEN 2 ELSE 1)]) :
        l \in {FALSE}, n \in {MaxChannels}, s \in 1..MaxChannels}

InitBatches ==
    /\ Init
    /\ config \in RerunConfigs
    /\ HasOption(tokens, TxtMain, "token")

NextBatches == Next \/ Rerun

SpecBatches == InitBatches /\ [][NextBatches]_vars

\* ------------------------------------------------------------------ claims
\* how a logged exporter invocation ended, read off its exit and stderr
JobSucceeded(j) == jobs[j].exit = "zero"

JobSkipped(j) ==
    jobs[j].exit = "nonzero" /\ Contains(jobs[j].stderr, NoMessagesText)

JobHardFailed(j) ==
    jobs[j].exit = "nonzero" /\ ~Contains(jobs[j].stderr, NoMessagesText)

JobInterrupted(j) == jobs[j].exit = "interrupted"

\* the `after` option of a section: [err, v] as ConfigParser.get gives it
AfterIn(cfg, section) == Get(cfg, section, "after")

Advanced(cfg, j) ==
    AfterIn(cfg, jobs[j].section) = [err |-> "", v |-> IsoFormat(jobs[j].exit_time[1])]

\* C1: when the exporter exits non-zero and stderr lacks the no-messages
\* text, CalledProcessError leaves run_all, and the job's section has the
\* `after` it had when the job started, in memory and in the file, which
\* was not written.
C1_HardFailureKeepsWatermark ==
    \A j \in 1..Len(jobs) :
        JobHardFailed(j) =>
            /\ pc = "raised"
            /\ result = "CalledProcessError"
            /\ AfterIn(config, jobs[j].section) = AfterIn(job0.config, jobs[j].section)
            /\ AfterIn(ReadLines(disk), jobs[j].section)
                  = AfterIn(ReadLines(job0.disk), jobs[j].section)
            /\ disk = job0.disk

C1_Witness ==
    /\ pc = "raised"
    /\ persist
    /\ \E j \in 1..Len(jobs) :
          /\ JobHardFailed(j)
          /\ Len(jobs[j].stderr) > 0
          /\ AfterIn(config, jobs[j].section).err = ""

\* C2: when the exporter exits non-zero with the no-messages text on stderr,
\* nothing is raised by that job, its section's `after` is the ISO form of the
\* clock at that moment, and run_all moves on to the next channel section.
C2_NoMessagesAdvances ==
    \A j \in 1..Len(jobs) :
        (JobSkipped(j) /\ pc # "crashed") =>
            /\ Advanced(config, j)
            /\ jobs[j].exit_time[1] <= now
            /\ pc = "raised" => idx > j
            /\ idx > j \/ (pc = "write" /\ idx = j)

C2_Witness ==
    /\ pc = "exec"
    /\ Len(jobs) = 2
    /\ JobSkipped(1)
    /\ jobs[1].exit_time[1] > 1
    /\ AfterIn(config0, jobs[1].section).err = ""

\* C3: after a job was interrupted, run_all starts no further job and no later
\* channel section's `after` changes.
C3_InterruptStopsBatch ==
    \A j \in 1..Len(jobs) :
        JobInterrupted(j) =>
            /\ j = Len(jobs)
            /\ \A k \in (j + 1)..Len(channel_sections) :
                  AfterIn(config, channel_sections[k])
                     = AfterIn(config0, channel_sections[k])

\* C4: an interrupted job makes run_export return 0 without raising, leaves
\* the job's `after` as it was, and does not write the file.
C4_InterruptIsNeutral ==
    \A j \in 1..Len(jobs) :
        JobInterrupted(j) =>
            /\ jobs[j].ret = Some(0)
            /\ AfterIn(config, jobs[j].section) = AfterIn(config0, jobs[j].section)
            /\ (j = Len(jobs) /\ pc = "loop") =>
                  /\ result = ""
                  /\ config = job0.config
                  /\ disk = job0.disk

C4_Witness ==
    /\ pc = "loop"
    /\ persist
    /\ Len(jobs) = 2
    /\ JobInterrupted(2)
    /\ JobSucceeded(1)
    /\ AfterIn(config, jobs[2].section).err = ""
    /\ now > 1

\* C5: with a file named, the file equals the store after every succeeded or
\* skipped job, and whenever the process has crashed the file still holds the
\* advanced `after` of every job completed before the one in flight.
C5_CrashLosesAtMostInFlight ==
    persist =>
        /\ (pc = "loop" /\ Len(jobs) > 0
               /\ (JobSucceeded(Len(jobs)) \/ JobSkipped(Len(jobs))))
              => ReadLines(disk) = config
        /\ pc = "crashed" =>
              \A j \in 1..(Len(jobs) - 1) :
                  (JobSucceeded(j) \/ JobSkipped(j)) => Advanced(ReadLines(disk), j)

\* C6: a hard failure at job k is the last thing the batch does: it leaves
\* run_all as CalledProcessError, no later job is started and the later
\* sections keep their `after`, and every earlier succeeded or skipped job keeps
\* its advanced `after` in the store and, with a file named, in the file.
C6_HardFailureAbortsBatch ==
    \A k \in 1..Len(jobs) :
        JobHardFailed(k) =>
            /\ k = Len(jobs)
            /\ pc = "raised"
            /\ result = "CalledProcessError"
            /\ \A m \in (k + 1)..Len(channel_sections) :
                  AfterIn(config, channel_sections[m])
                     = AfterIn(config0, channel_sections[m])
            /\ \A j \in 1..(k - 1) :
                  (JobSucceeded(j) \/ JobSkipped(j)) =>
                      /\ Advanced(config, j)
                      /\ persist => Advanced(ReadLines(disk), j)

C6_Witness ==
    /\ persist
    /\ Len(jobs) = 2
    /\ Len(channel_sections) = 2
    /\ JobHardFailed(2)
    /\ JobSucceeded(1)
    /\ now > 1

\* C7: the jobs are exactly the sections whose key has a ".", in the store's
\* order; at most one exporter is in flight; and while a job's exporter runs,
\* every earlier job has exited and, if it succeeded or was skipped, its
\* watermark is in the store and, with a file named, in the file.
C7_SequentialInOrder ==
    batch >= 1 =>
        /\ \A i \in 1..Len(config0) :
              (\E c \in 1..Len(config0[i].name) : config0[i].name[c] = ".")
                 <=> (\E k \in 1..Len(channel_sections) :
                         channel_sections[k] = config0[i].name)
        /\ \A a, b \in 1..Len(channel_sections) :
              a < b => SectionIndex(config0, channel_sections[a])
                          < SectionIndex(config0, channel_sections[b])
        /\ \A j \in 1..Len(jobs) : jobs[j].section = channel_sections[j]
        /\ running <= 1
        /\ pc = "exec" =>
              /\ running = 1
              /\ \A j \in 1..(Len(jobs) - 1) :
                    /\ jobs[j].exit # "running"
                    /\ jobs[j].ret = Some(0)
                    /\ (JobSucceeded(j) \/ JobSkipped(j)) =>
                          /\ Advanced(config, j)
                          /\ persist => Advanced(ReadLines(disk), j)

C7_Witness ==
    /\ pc = "exec"
    /\ persist
    /\ Len(jobs) = 2
    /\ JobSucceeded(1)
    /\ config0[1].name = IntStr(2)
    /\ SectionIndex(config0, jobs[1].section) < SectionIndex(config0, jobs[2].section)

\* C9: from a hard failure until the failed section's job of the next batch
\* has run, the section maps to the same `after` bound, and that next job is
\* started with it.
C9_FailedJobRetriedFromSameBound ==
    (failed # <<>> /\ pc # "crashed") =>
        LET f == failed[1]
            mine == {j \in 1..Len(jobs) : jobs[j].section = f.section}
        IN  /\ (batch = f.batch + 1 /\ pc = "exec") =>
                  \A j \in mine : jobs[j].after = f.after
            /\ (batch = f.batch
                  \/ (batch = f.batch + 1
                        /\ \A j \in mine : jobs[j].exit = "running")) =>
                  /\ FromConfig(config, f.section).err = ""
                  /\ FromConfig(config, f.section).export.after = f.after

C9_Witness ==
    /\ failed # <<>>
    /\ batch = failed[1].batch + 1
    /\ pc = "exec"
    /\ jobs[Len(jobs)].section = failed[1].section
    /\ jobs[Len(jobs)].after # None
    /\ Len(jobs) = 2
    /\ JobSucceeded(1)

\* C8: run_all comes to an end, and when it ends normally with every job
\* succeeded or skipped it has returned 0 and the exporter was invoked exactly
\* once for each channel section.
C8_BatchCompletes ==
    /\ <>(pc \in {"done", "raised", "crashed"})
    /\ [](( /\ pc = "done"
            /\ \A j \in 1..Len(jobs) : JobSucceeded(j) \/ JobSkipped(j)) =>
             LET chans == {i \in 1..Len(config0) : Contains(config0[i].name, <<".">>)}
             IN  /\ result = "0"
                 /\ Len(jobs) = Cardinality(chans)
                 /\ \A i \in chans :
                       Cardinality({j \in 1..Len(jobs) :
                                       jobs[j].section = config0[i].name}) = 1)

C8_Witness ==
    /\ pc = "done"
    /\ result = "0"
    /\ Len(jobs) = 2
    /\ JobSkipped(1)
    /\ JobSkipped(2)

\* ------------------------------------------- mapping a section to a job
\* what a channel section may say about each optional field
TokenChoices == {<<>>, <<Opt("token", TxtAlt)>>, <<Opt("token_name", TxtG)>>}

FormatChoices == {<<>>, <<Opt("format", TxtCsv)>>, <<Opt("format", TxtHtml)>>}

DateChoices ==
    {<<>>, <<Opt("datetime_format", <<"s">>)>>, <<Opt("dateformat", <<"o">>)>>}

AfterChoices == {<<>>, <<Opt("after", IsoFormat(12))>>, <<Opt("after", <<"x">>)>>}

PartitionChoices ==
    {<<>>, <<Opt("partition", <<"0">>)>>, <<Opt("partition", <<" ", "7">>)>>}

MapSections ==
    {<<Opt("name", TxtC)>> \o p \o a \o d \o f \o t :
        t \in TokenChoices, f \in FormatChoices, d \in DateChoices,
        a \in AfterChoices, p \in PartitionChoices}

\* and what its community section may say
MapGuildSections ==
    {t \o f \o d \o a \o p \o <<Opt("name", TxtG)>> :
        t \in {<<>>, <<Opt("token", TxtMain)>>},
        f \in {<<>>, <<Opt("format", TxtCsv)>>},
        d \in {<<>>, <<Opt("datetime_format", TxtU)>>, <<Opt("dateformat", <<"o">>)>>},
        a \in {<<>>, <<Opt("after", IsoFormat(0))>>, <<Opt("after", <<"x">>)>>},
        p \in {<<>>, <<Opt("partition", <<"5">>)>>, <<Opt("partition", <<"x">>)>>}}

MapConfigs ==
    {<<Section(IntStr(1), g), Section(ChannelKey(1, 2), c)>> :
        g \in MapGuildSections, c \in MapSections}

InitMap ==
    /\ config \in MapConfigs
    /\ tokens = <<>>
    /\ disk = <<>>
    /\ persist = FALSE
    /\ now = 1
    /\ pc = "map"
    /\ channel_sections = <<ChannelKey(1, 2)>>
    /\ idx = 1
    /\ export = NoExport
    /\ running = 0
    /\ result = ""
    /\ batch = 0
    /\ jobs = <<>>
    /\ config0 = <<>>
    /\ job0 = [config |-> <<>>, disk |-> <<>>]
    /\ failed = <<>>

\* Export.from_config applied to the channel section
BuildJob ==
    /\ pc = "map"
    /\ LET built == FromConfig(config, channel_sections[idx])
       IN  /\ export' = built.export
           /\ result' = built.err
    /\ pc' = "mapped"
    /\ UNCHANGED <<config, tokens, disk, persist, now, channel_sections, idx,
                   running, batch, jobs, config0, job0, failed>>

NextMap == BuildJob

SpecMap == InitMap /\ [][NextMap]_vars

\* the option keys that stand for a descriptor field
FieldKeys(f) ==
    CASE f = "token_name" -> {"token", "token_name"}
      [] f = "output_format" -> {"format", "output_format"}
      [] OTHER -> {f}

SetsField(section, f) ==
    \E i \in 1..Len(SectionOpts(config, section)) :
        SectionOpts(config, section)[i].k \in FieldKeys(f)

RawField(section, f) ==
    LET o == SectionOpts(config, section)
    IN  o[CHOOSE i \in 1..Len(o) : o[i].k \in FieldKeys(f)].v

\* channel value, else community value, else nothing
Inherited(f) ==
    IF SetsField(ChannelKey(1, 2), f) THEN Some(RawField(ChannelKey(1, 2), f))
    ELSE IF SetsField(IntStr(1), f) THEN Some(RawField(IntStr(1), f))
    ELSE None

OrDefault(v, d) == IF v = None THEN d ELSE v[1]

\* C10: a descriptor built by from_config has, for token name, output format,
\* date format, after and partition, the channel section's value if it sets
\* one, else the community section's if it sets one, else the default.
C10_ChannelOverCommunityOverDefault ==
    (pc = "mapped" /\ result = "") =>
        /\ export.token_name = OrDefault(Inherited("token_name"), TxtMain)
        /\ export.output_format = OrDefault(Inherited("output_format"), TxtJson)
        /\ export.datetime_format = OrDefault(Inherited("datetime_format"), TxtU)
        /\ export.after =
              (IF Inherited("after") = None THEN None
               ELSE Some(FromIso(Inherited("after")[1]).val))
        /\ export.partition =
              (IF Inherited("partition") = None THEN None
               ELSE Some(IntParse(Inherited("partition")[1]).val))

C10_Witness ==
    /\ pc = "mapped"
    /\ result = ""
    /\ Get(config, IntStr(1), "format").v = TxtCsv
    /\ Get(config, ChannelKey(1, 2), "format").v = TxtHtml
    /\ export.output_format = TxtHtml
    /\ Get(config, IntStr(1), "after").err = ""
    /\ export.after = Some(12)
    /\ export.partition = Some(7)

\* ------------------------------------------- the exporter's command line
\* format identifiers a section may name: the exporter's own, and strings
\* that mix families or belong to none
ArgFormats ==
    {<<"H", "t", "m", "l", "D", "a", "r", "k">>,
     <<"C", "s", "v">>,
     <<"P", "l", "a", "i", "n", "T", "e", "x", "t">>,
     <<"J", "s", "o", "n">>,
     <<"c", "s", "v", "-", "j", "s", "o", "n">>,
     <<"X", "M", "L">>}

\* the optional options of a channel section, each absent or present
ArgOptions ==
    {t \o f \o d \o a \o p :
        t \in {<<>>, <<Opt("token", TxtAlt)>>},
        f \in {<<>>} \cup {<<Opt("format", x)>> : x \in ArgFormats},
        d \in {<<>>, <<Opt("datetime_format", <<"s">>)>>, <<Opt("dateformat", <<"o">>)>>},
        a \in {<<>>, <<Opt("after", IsoFormat(3))>>},
        p \in {<<>>, <<Opt("partition", <<"0">>)>>, <<Opt("partition", <<"7">>)>>}}

\* community 1, plain or with inheritable defaults, and its channel 1.2 with
\* the options in one order or the other
ArgConfigs ==
    {<<Section(IntStr(1), IF defaults
                          THEN <<Opt("dateformat", <<"g">>), Opt("partition", <<"5">>),
                                 Opt("name", TxtG)>>
                          ELSE <<Opt("name", TxtG)>>),
       Section(ChannelKey(1, 2), IF forward THEN <<Opt("name", TxtC)>> \o o
                                 ELSE Reverse(<<Opt("name", TxtC)>> \o o))>> :
        defaults \in BOOLEAN, forward \in BOOLEAN, o \in ArgOptions}

ArgTokenStores ==
    {<<Section(TxtMain, <<Opt("token", <<"s", "1">>)>>),
       Section(TxtAlt, <<Opt("bot", <<"n", "o">>), Opt("token", <<"s", "2">>)>>)>>,
     <<Section(TxtMain, <<Opt("bot", <<"T", "r", "u", "e">>), Opt("token", <<"s", "1">>)>>),
       Section(TxtAlt, <<Opt("token", <<"s", "2">>), Opt("bot", <<"0">>)>>)>>}

InitArgs ==
    /\ config \in ArgConfigs
    /\ tokens \in ArgTokenStores
    /\ disk = <<>>
    /\ persist = FALSE
    /\ now = 1
    /\ pc = "idle"
    /\ channel_sections = <<>>
    /\ idx = 0
    /\ export = NoExport
    /\ running = 0
    /\ result = ""
    /\ batch = 0
    /\ jobs = <<>>
    /\ config0 = config
    /\ job0 = [config |-> config, disk |-> disk]
    /\ failed = <<>>

\* run_all up to the first exporter invocation
NextArgs == Main \/ StartJob

SpecArgs == InitArgs /\ [][NextArgs]_vars

FlagDateformat == <<"-", "-", "d", "a", "t", "e", "f", "o", "r", "m", "a", "t">>

\* the argument that follows a flag in an argument list
ArgAfter(args, flag) ==
    args[(CHOOSE i \in 1..(Len(args) - 1) : args[i] = flag) + 1]

\* the value of a key in the channel section, else in its community section
Configured(key) ==
    IF HasOption(config, ChannelKey(1, 2), key)
    THEN Some(Get(config, ChannelKey(1, 2), key).v)
    ELSE IF HasOption(config, IntStr(1), key)
    THEN Some(Get(config, IntStr(1), key).v)
    ELSE None

\* C11: when the channel section or, failing that, its community section sets
\* `dateformat`, the exporter is started with that value after --dateformat.
C11_DateformatKeyDecides ==
    (pc = "exec" /\ Configured("dateformat") # None) =>
        ArgAfter(jobs[1].args, FlagDateformat) = Configured("dateformat")[1]

\* the bot flag of the job's token record, true when the record has none
BotFlag ==
    IF HasOption(tokens, export.token_name, "bot")
    THEN Lower(Get(tokens, export.token_name, "bot").v)
            \in {<<"1">>, <<"y", "e", "s">>, <<"t", "r", "u", "e">>, <<"o", "n">>}
    ELSE TRUE

\* C12: the exporter is started with executable, export, -c id, -o dir/file,
\* -f format, --dateformat fmt, then --after iso exactly when the job has an
\* after bound, then -p n exactly when the job has a partition size, then
\* -t token, then -b exactly when the bot flag is true; the same list whatever
\* the order of the section's keys.
C12_ExactArgumentList ==
    pc = "exec" =>
        jobs[1].args =
            <<Executable, TxtExport,
              <<"-", "c">>, IntStr(export.channel.id),
              <<"-", "o">>, OutDir \o <<"/">> \o Filename(export, now),
              <<"-", "f">>, export.output_format,
              FlagDateformat, export.datetime_format>>
            \o (IF export.after # None
                THEN <<<<"-", "-", "a", "f", "t", "e", "r">>,
                       <<"T">> \o IntStr(export.after[1])>>
                ELSE <<>>)
            \o (IF export.partition # None
                THEN <<<<"-", "p">>, IntStr(export.partition[1])>>
                ELSE <<>>)
            \o <<<<"-", "t">>, Get(tokens, export.token_name, "token").v>>
            \o (IF BotFlag THEN <<<<"-", "b">>>> ELSE <<>>)

\* the output path of the first job up to and including the "." before the
\* extension
Stem ==
    OutDir \o <<"/">>
      \o Join(<<"-">>, <<Get(config, IntStr(1), "name").v,
                         Get(config, ChannelKey(1, 2), "name").v,
                         <<"2">>,
                         IntStr(IF export.after # None THEN export.after[1] ELSE now)>>)
      \o <<".">>

OutputPath == ArgAfter(jobs[1].args, <<"-", "o">>)

\* what follows the stem in the output path
Extension == SubSeq(OutputPath, Len(Stem) + 1, Len(OutputPath))

\* C13 as stated: a format containing csv, html or text in any letter case has
\* the extension csv, html or txt, and a format of no known family is its own
\* extension, unchanged.
C13_ExtensionByFamily ==
    pc = "exec" =>
        LET l == Lower(export.output_format)
        IN  /\ SubSeq(OutputPath, 1, Len(Stem)) = Stem
            /\ Contains(l, TxtCsv) => Extension = TxtCsv
            /\ Contains(l, TxtHtml) => Extension = TxtHtml
            /\ Contains(l, TxtText) => Extension = TxtTxt
            /\ (~Contains(l, TxtJson) /\ ~Contains(l, TxtCsv)
                  /\ ~Contains(l, TxtHtml) /\ ~Contains(l, TxtText))
                 => Extension = export.output_format

\* C13 amended: the extension is decided on the lower-cased format by the
\* first of json, csv, html, text it contains (text giving txt), and a format
\* containing none of them gives its lower-cased self.
C13_ExtensionByFirstFamily ==
    pc = "exec" =>
        LET l == Lower(export.output_format)
        IN  OutputPath = Stem \o
               (CASE Contains(l, TxtJson) -> TxtJson
                  [] ~Contains(l, TxtJson) /\ Contains(l, TxtCsv) -> TxtCsv
                  [] ~Contains(l, TxtJson) /\ ~Contains(l, TxtCsv)
                       /\ Contains(l, TxtHtml) -> TxtHtml
                  [] ~Contains(l, TxtJson) /\ ~Contains(l, TxtCsv)
                       /\ ~Contains(l, TxtHtml) /\ Contains(l, TxtText) -> TxtTxt
                  [] OTHER -> l)

C13_Witness ==
    /\ pc = "exec"
    /\ export.output_format = <<"P", "l", "a", "i", "n", "T", "e", "x", "t">>
    /\ export.after # None
    /\ Extension = TxtTxt

NotAfter(o) == o.k # "after"

\* C14: a step never changes the token store, and a step that changes the
\* configuration store is the end of a running job and changes nothing but
\* the `after` option of that job's section: the sections, their order, every
\* other section and every other option of that section stay as they were.
C14_OnlyOwnAfterChanges ==
    [][ /\ tokens' = tokens
        /\ config' # config =>
              /\ pc = "exec"
              /\ Len(config') = Len(config)
              /\ \A i \in 1..Len(config) :
                    /\ config'[i].name = config[i].name
                    /\ config[i].name # jobs[Len(jobs)].section =>
                          config'[i] = config[i]
                    /\ SelectSeq(config'[i].opts, NotAfter)
                          = SelectSeq(config[i].opts, NotAfter) ]_vars

C14_Witness ==
    /\ pc = "loop"
    /\ Len(jobs) = 2
    /\ JobSkipped(2)
    /\ Advanced(config, 2)
    /\ AfterIn(config0, jobs[2].section).err # ""
    /\ HasOption(config, jobs[2].section, "token")
    /\ Len(config) = 4

\* C15: when the loop is at a section whose job can be built and the token
\* store has no record of the job's token name, or the record has no `token`
\* option, the next step raises NoSectionError or NoOptionError: no exporter
\* is started or logged, and store and file are left as they are.
C15_MissingTokenFailsBeforeExporter ==
    [][ (/\ pc = "loop"
         /\ idx <= Len(channel_sections)
         /\ FromConfig(config, channel_sections[idx]).err = ""
         /\ ~HasOption(tokens,
                       FromConfig(config, channel_sections[idx]).export.token_name,
                       "token")) =>
            /\ pc' = "raised"
            /\ result' = (IF HasSection(tokens, export'.token_name)
                          THEN "NoOptionError" ELSE "NoSectionError")
            /\ running' = 0
            /\ jobs' = jobs
            /\ config' = config
            /\ disk' = disk ]_vars

C15_Witness ==
    /\ pc = "raised"
    /\ result = "NoSectionError"
    /\ persist
    /\ Len(jobs) = 1
    /\ JobSucceeded(1)
    /\ idx = 2
    /\ export.token_name = TxtMain
    /\ ~HasSection(tokens, TxtMain)

\* a value of the section that from_config cannot parse
Unparseable(cfg, section, key) ==
    /\ HasOption(cfg, section, key)
    /\ IF key = "after" THEN ~FromIso(Get(cfg, section, key).v).ok
       ELSE ~IntParse(Get(cfg, section, key).v).ok

\* the channel section is invalid in one of the ways C16 lists
Invalid(cfg, section) ==
    LET community == Partition(section, ".")[1]
    IN  \/ ~HasSection(cfg, community)
        \/ ~HasOption(cfg, community, "name")
        \/ ~HasOption(cfg, section, "name")
        \/ Unparseable(cfg, section, "after")
        \/ Unparseable(cfg, section, "partition")
        \/ HasSection(cfg, community)
             /\ (Unparseable(cfg, community, "after")
                   \/ Unparseable(cfg, community, "partition"))

\* C16: when the loop is at an invalid channel section, the next step raises
\* NoSectionError, NoOptionError or ValueError out of run_all without starting
\* or logging an exporter and without touching store or file; and once that
\* has happened no job exists for that or a later section, while every earlier
\* succeeded or skipped job has its advanced `after` in the store and, with a
\* file named, in the file.
C16_InvalidSectionAbortsBatch ==
    /\ [][ (/\ pc = "loop"
            /\ idx <= Len(channel_sections)
            /\ Invalid(config, channel_sections[idx])) =>
               /\ pc' = "raised"
               /\ result' \in {"NoSectionError", "NoOptionError", "ValueError"}
               /\ running' = 0
               /\ jobs' = jobs
               /\ config' = config
               /\ disk' = disk ]_vars
    /\ []((/\ pc = "raised"
           /\ idx <= Len(channel_sections)
           /\ Invalid(config, channel_sections[idx])) =>
              /\ Len(jobs) = idx - 1
              /\ running = 0
              /\ \A j \in 1..Len(jobs) :
                    (JobSucceeded(j) \/ JobSkipped(j)) =>
                        /\ Advanced(config, j)
                        /\ persist => Advanced(ReadLines(disk), j))

C16_Witness ==
    /\ pc = "raised"
    /\ result = "NoSectionError"
    /\ ~HasSection(config, IntStr(2))
    /\ persist
    /\ idx = 2
    /\ Len(jobs) = 1
    /\ JobSkipped(1)
    /\ Len(channel_sections) = 2

\* ------------------------------------------------ the exporter and time
\* The child started by check_output reads the channel at some moment of its
\* run: it exports the messages stamped after its --after bound and up to that
\* moment, and exits later.  A message may be stamped with any clock value.
ExporterReads ==
    /\ pc = "exec"
    /\ jobs[Len(jobs)].read_time = None
    /\ jobs' = [jobs EXCEPT ![Len(jobs)].read_time = Some(now)]
    /\ UNCHANGED <<config, tokens, disk, persist, now, pc, channel_sections, idx,
                   export, running, result, batch, config0, job0, failed>>

\* the exporter exits with status 0 after it has read the channel
ReadThenExitsZero ==
    /\ pc = "exec"
    /\ jobs[Len(jobs)].read_time # None
    /\ ExporterExitsZero

\* the exporter reports that it found nothing after it has read the channel
ReadThenNoMessages ==
    /\ pc = "exec"
    /\ jobs[Len(jobs)].read_time # None
    /\ ExporterNoMessages

InitMessages ==
    /\ config \in RerunConfigs
    /\ tokens \in {t \in TokenStores : HasOption(t, TxtMain, "token")}
    /\ disk = WriteLines(config)
    /\ persist = FALSE
    /\ now = 0
    /\ pc = "idle"
    /\ channel_sections = <<>>
    /\ idx = 0
    /\ export = NoExport
    /\ running = 0
    /\ result = ""
    /\ batch = 0
    /\ jobs = <<>>
    /\ config0 = config
    /\ job0 = [config |-> config, disk |-> disk]
    /\ failed = <<>>

NextMessages ==
    \/ Main
    \/ Rerun
    \/ RunAllReturn
    \/ StartJob
    \/ ExporterReads
    \/ ReadThenExitsZero
    \/ ReadThenNoMessages
    \/ ExporterFails
    \/ Interrupt
    \/ Tick

SpecMessages == InitMessages /\ [][NextMessages]_vars

\* the clock values a message may be stamped with
Stamps == 0..MaxClock

\* a job that succeeded or was skipped exported the message stamped t
ExportedBy(j, t) ==
    /\ jobs[j].after # None => t > jobs[j].after[1]
    /\ t <= jobs[j].read_time[1]

\* C17: for every succeeded or skipped job and every message stamped later
\* than the job's after bound, the job exported the message or the watermark
\* the job wrote is not later than the message, so that a later run can still
\* ask for it.
C17_NoMessageLost ==
    \A j \in 1..Len(jobs) :
        (JobSucceeded(j) \/ JobSkipped(j)) =>
            \A t \in Stamps :
                (jobs[j].after # None => t > jobs[j].after[1]) =>
                    \/ ExportedBy(j, t)
                    \/ t >= jobs[j].exit_time[1]

\* ------------------------------------------------- section keys as written
\* ways an id may be written in a section header that int() accepts
GuildKeys == {<<"1">>, <<"0", "1">>, <<"+", "1">>, <<" ", "1">>}

ChannelIds == {<<"2">>, <<"0", "2">>, <<"2", " ">>}

\* a community and its channel under the keys as written, alone or after a
\* community and channel under the canonical keys of the same ids
KeyConfigs ==
    {(IF twin
      THEN <<Section(IntStr(1), <<Opt("name", TxtG)>>),
             Section(ChannelKey(1, 2), <<Opt("name", TxtC), Opt("after", IsoFormat(0))>>)>>
      ELSE <<>>)
     \o (IF twin /\ g = IntStr(1) THEN <<>> ELSE <<Section(g, <<Opt("name", TxtG)>>)>>)
     \o (IF twin /\ g = IntStr(1) /\ c = IntStr(2) THEN <<>>
         ELSE <<Section(g \o <<".">> \o c, <<Opt("name", TxtC)>>)>>) :
        twin \in BOOLEAN, g \in GuildKeys, c \in ChannelIds}

InitKeys ==
    /\ config \in KeyConfigs
    /\ tokens = <<Section(TxtMain, <<Opt("token", <<"s", "1">>)>>)>>
    /\ disk = WriteLines(config)
    /\ persist \in BOOLEAN
    /\ now = 1
    /\ pc = "idle"
    /\ channel_sections = <<>>
    /\ idx = 0
    /\ export = NoExport
    /\ running = 0
    /\ result = ""
    /\ batch = 0
    /\ jobs = <<>>
    /\ config0 = config
    /\ job0 = [config |-> config, disk |-> disk]
    /\ failed = <<>>

SpecKeys == InitKeys /\ [][Next]_vars

\* C18: while a job's exporter runs, the key run_export will write `after` to
\* is the section the job was built from; and a job that succeeded or was
\* skipped has not raised NoSectionError and has its advanced `after` in its
\* own section.
C18_WatermarkGoesToOwnSection ==
    /\ pc = "exec" => WatermarkKey(export) = jobs[Len(jobs)].section
    /\ \A j \in 1..Len(jobs) :
          ((JobSucceeded(j) \/ JobSkipped(j)) /\ pc # "crashed") =>
              /\ result # "NoSectionError"
              /\ Advanced(config, j)

\* ------------------------------------------- watermarks across batches
\* repeated batches over a store kept in a file, every job outcome, and a
\* process that is not killed
InitForward ==
    /\ InitBatches
    /\ persist

NextForward ==
    \/ Main
    \/ Rerun
    \/ RunAllReturn
    \/ StartJob
    \/ ExporterExitsZero
    \/ ExporterNoMessages
    \/ ExporterFails
    \/ Interrupt
    \/ WriteStore
    \/ Tick

SpecForward == InitForward /\ [][NextForward]_vars

\* the after bound a job for the section would get from the store, -1 for none
AfterOf(cfg, section) ==
    Only({IF built.export.after = None THEN 0 - 1 ELSE built.export.after[1] :
             built \in {FromConfig(cfg, section)}})

ChannelKeysOf(cfg) == {cfg[i].name : i \in {k \in 1..Len(cfg) : IsChannelSection(cfg[k])}}

\* C19: with a clock that only moves forward and configured `after` values not
\* later than the clock at the start, no step lowers the after bound of any
\* channel section; and when a batch has returned with every job succeeded or
\* skipped, every channel section's `after` is not earlier than the moment the
\* batch's first job started.
C19_WatermarksOnlyMoveForward ==
    /\ [][config' # config =>
             \A s \in ChannelKeysOf(config) :
                 /\ s \in ChannelKeysOf(config')
                 /\ AfterOf(config', s) >= AfterOf(config, s)]_vars
    /\ []((/\ pc = "done"
           /\ \A j \in 1..Len(jobs) : JobSucceeded(j) \/ JobSkipped(j)) =>
              \A s \in ChannelKeysOf(config) :
                  /\ AfterIn(config, s).err = ""
                  /\ FromIso(AfterIn(config, s).v).val >= jobs[1].start_time)

C19_Witness ==
    /\ pc = "done"
    /\ batch = 2
    /\ Len(jobs) = 2
    /\ JobSucceeded(1)
    /\ JobSkipped(2)
    /\ jobs[1].start_time = 2
    /\ \A s \in ChannelKeysOf(config) : AfterOf(config, s) = 2
    /\ \E s \in ChannelKeysOf(config0) : AfterOf(config0, s) = 1

====
